---- MODULE Spec2Model ----
(***************************************************************************)
(* Model of src/src/unready-fetch.ts: the factory unreadyFetch(mock,       *)
(* timout) and the request function it returns, which races a one-shot     *)
(* timer against the abort event of the caller's AbortSignal.              *)
(*                                                                         *)
(* JavaScript values are tokens (strings); an optional number or object is *)
(* a sequence of length 0 (undefined / omitted) or 1 (the value).          *)
(***************************************************************************)
EXTENDS Integers, Sequences, FiniteSets

\* ------------------------------------------------------------------ bounds
MaxFactories == 1
MaxInvocations == 2
MaxBranchInvocations == 1
MaxReads == 2

\* --------------------------------------------------------- value universes
\* payload values a caller can put in mock.success / mock.error
Undefined == "undefined"
FalsyValues == {"undefined", "null", "num:0", "str:", "bool:false"}
PayloadValues == FalsyValues \cup {"obj:custom", "obj:Date"}
StatusValues == {<<>>, <<0>>, <<200>>, <<399>>, <<400>>, <<500>>}
TimoutArgs == {<<>>, <<0>>}
Signals == {1, 2}
Reasons == {"AbortError", "obj:reason"}
Targets == {[kind |-> "string", href |-> "https://api.example.com/data"],
            [kind |-> "URL", href |-> "https://api.example.com/user"],
            [kind |-> "Request", href |-> "https://api.example.com/data"]}

\* the UnreadyFetchMock interface; <<>> is an omitted mock argument
MockObjects == [success : PayloadValues, error : PayloadValues, status : StatusValues]
Mocks == {<<>>} \cup {<<m>> : m \in MockObjects}
RaceTargets == {[kind |-> "string", href |-> "https://api.example.com/data"]}
RaceMocks == {<<>>,
              <<[success |-> Undefined, error |-> "obj:custom", status |-> <<>>]>>,
              <<[success |-> "obj:custom", error |-> Undefined, status |-> <<500>>]>>}

defaultSuccessResponse == "obj:defaultSuccessResponse"
defaultErrorResponse == "obj:defaultErrorResponse"
DefaultTimout == 1000
DefaultErrorStatus == 400
DefaultSuccessStatus == 200
ErrorThreshold == 400

\* ------------------------------------------------------ JavaScript operators
\* ToBoolean(v): the values that !v / !!v treat as false
Truthy(v) == v \notin FalsyValues
\* a ?? b
Coalesce(v, d) == IF v \in {"undefined", "null"} THEN d ELSE v
\* mock?.success, mock?.error, mock?.status
MockSuccess(mock) == IF Len(mock) = 0 THEN Undefined ELSE mock[1].success
MockError(mock) == IF Len(mock) = 0 THEN Undefined ELSE mock[1].error
MockStatus(mock) == IF Len(mock) = 0 THEN <<>> ELSE mock[1].status
\* mock?.status ?? d
StatusOr(mock, d) == IF Len(MockStatus(mock)) = 0 THEN d ELSE MockStatus(mock)[1]
\* input.toString()
ToString(input) == IF input.kind = "Request" THEN "[object Request]" ELSE input.href

\* JSON.stringify(v): undefined for undefined, a Date serialized through toJSON
JSONStringify(v) ==
    CASE v = "undefined" -> "undefined"
      [] v = "null" -> "null"
      [] v = "num:0" -> "0"
      [] v = "str:" -> "\"\""
      [] v = "bool:false" -> "false"
      [] v = "obj:custom" -> "{\"message\":\"custom\"}"
      [] v = "obj:Date" -> "\"2024-01-01T00:00:00.000Z\""
      [] v = "obj:defaultSuccessResponse" -> "{\"status\":\"success\",\"code\":200}"
      [] v = "obj:defaultErrorResponse" -> "{\"status\":\"error\",\"code\":400}"
      [] OTHER -> "undefined"
\* JSON.parse(s): the value a JSON text denotes
JSONParse(s) ==
    CASE s = "null" -> "null"
      [] s = "0" -> "num:0"
      [] s = "\"\"" -> "str:"
      [] s = "false" -> "bool:false"
      [] s = "{\"message\":\"custom\"}" -> "obj:custom"
      [] s = "\"2024-01-01T00:00:00.000Z\"" -> "str:2024-01-01T00:00:00.000Z"
      [] s = "{\"status\":\"success\",\"code\":200}" -> "obj:defaultSuccessResponse"
      [] s = "{\"status\":\"error\",\"code\":400}" -> "obj:defaultErrorResponse"
      [] OTHER -> "SyntaxError"

\* ------------------------------------------------------- the timer callback
\* (mutant) the status threshold as a strict comparison
IsErrorBranchStrict(mock) ==
    \/ /\ Len(MockStatus(mock)) = 1
       /\ MockStatus(mock)[1] # 0
       /\ MockStatus(mock)[1] > ErrorThreshold
    \/ /\ ~Truthy(MockSuccess(mock))
       /\ Truthy(MockError(mock))
\* (mock?.status && mock.status >= 400) || (!mock?.success && !!mock?.error)
IsErrorBranch(mock) ==
    \/ /\ Len(MockStatus(mock)) = 1
       /\ MockStatus(mock)[1] # 0
       /\ MockStatus(mock)[1] >= ErrorThreshold
    \/ /\ ~Truthy(MockSuccess(mock))
       /\ Truthy(MockError(mock))

\* (mutant) an error response that takes url from the target's own url field
errResponseHrefUrl(mock, input) ==
    [url |-> input.href,
     ok |-> FALSE,
     status |-> StatusOr(mock, DefaultErrorStatus),
     payload |-> Coalesce(MockError(mock), defaultErrorResponse)]
errResponse(mock, input) ==
    [url |-> ToString(input),
     ok |-> FALSE,
     status |-> StatusOr(mock, DefaultErrorStatus),
     payload |-> Coalesce(MockError(mock), defaultErrorResponse)]

\* (mutant) the success branch falling back to the error default
responseWrongDefault(mock, input) ==
    [url |-> ToString(input),
     ok |-> TRUE,
     status |-> StatusOr(mock, DefaultSuccessStatus),
     payload |-> Coalesce(MockSuccess(mock), defaultErrorResponse)]
response(mock, input) ==
    [url |-> ToString(input),
     ok |-> TRUE,
     status |-> StatusOr(mock, DefaultSuccessStatus),
     payload |-> Coalesce(MockSuccess(mock), defaultSuccessResponse)]

\* json() of a response: Promise.resolve(errData) / Promise.resolve(data)
json(resp) == resp.payload
\* (mutant) a text() that hands out the payload without serializing it
textUnserialized(resp) == resp.payload
\* text() of a response: Promise.resolve(JSON.stringify(errData / data))
text(resp) == JSONStringify(resp.payload)

TimeoutCallback(mock, input) ==
    IF IsErrorBranch(mock) THEN errResponse(mock, input) ELSE response(mock, input)

\* ------------------------------------------------------------- the promise
PendingPromise == [state |-> "pending", response |-> <<>>, reason |-> Undefined]
\* (mutant) a timer callback that builds the response and never resolves
ResolveDropped(p, v) == p
\* resolve(v): settles a pending promise, ignored once settled
Resolve(p, v) ==
    IF p.state = "pending"
    THEN [state |-> "fulfilled", response |-> <<v>>, reason |-> Undefined]
    ELSE p
\* (mutant) a rejection that also overwrites a settled promise
RejectOverwrites(p, r) == [state |-> "rejected", response |-> <<>>, reason |-> r]
\* reject(r): settles a pending promise, ignored once settled
Reject(p, r) ==
    IF p.state = "pending"
    THEN [state |-> "rejected", response |-> <<>>, reason |-> r]
    ELSE p
\* clearTimeout(timeoutId): cancels a timer that has not fired yet
ClearTimeout(t) == IF t = "scheduled" THEN "cleared" ELSE t

\* ------------------------------------------------------------------- state
VARIABLES
    warnings,    \* number of console.warn calls so far
    requesters,  \* closures returned by unreadyFetch: [mock, timout]
    calls,       \* invocations of a request function: [requester, input, signal, abortedAtCall]
    promise,     \* promise[i]: the promise returned by invocation i
    timer,       \* timer[i]: [state, delay] of timeoutId of invocation i
    listeners,   \* listeners[s]: invocations whose abort listener is registered on signal s
    signal,      \* signal[s]: [aborted, reason] of the caller's AbortSignal s
    reads        \* results of the json() / text() calls made so far: [call, kind, value]

vars == <<warnings, requesters, calls, promise, timer, listeners, signal, reads>>

Init ==
    /\ warnings = 0
    /\ requesters = <<>>
    /\ calls = <<>>
    /\ promise = <<>>
    /\ timer = <<>>
    /\ listeners = [s \in Signals |-> <<>>]
    /\ signal = [s \in Signals |-> [aborted |-> FALSE, reason |-> Undefined]]
    /\ reads = <<>>

\* unreadyFetch(mock, timout = 1000): warns, returns the request function
UnreadyFetch(mock, timoutArg) ==
    /\ warnings' = warnings + 1
    /\ requesters' = Append(requesters,
          [mock |-> mock,
           timout |-> IF Len(timoutArg) = 0 THEN DefaultTimout ELSE timoutArg[1]])
    /\ UNCHANGED <<calls, promise, timer, listeners, signal, reads>>

\* (mutant) a request function that emits the warning on every request
RequestWarns(f, input, initSignal) ==
    /\ f \in 1..Len(requesters)
    /\ warnings' = warnings + 1
    /\ calls' = Append(calls,
          [requester |-> f, input |-> input, signal |-> initSignal,
           abortedAtCall |-> IF Len(initSignal) = 0 THEN FALSE
                             ELSE signal[initSignal[1]].aborted])
    /\ promise' = Append(promise, PendingPromise)
    /\ timer' = Append(timer, [state |-> "scheduled", delay |-> requesters[f].timout])
    /\ listeners' = IF Len(initSignal) = 0 THEN listeners
                    ELSE [listeners EXCEPT ![initSignal[1]] = Append(@, Len(calls) + 1)]
    /\ UNCHANGED <<requesters, signal, reads>>

\* (mutant) a request function that runs the callback inline when timout is 0
RequestSync(f, input, initSignal) ==
    /\ f \in 1..Len(requesters)
    /\ calls' = Append(calls,
          [requester |-> f, input |-> input, signal |-> initSignal,
           abortedAtCall |-> IF Len(initSignal) = 0 THEN FALSE
                             ELSE signal[initSignal[1]].aborted])
    /\ promise' = Append(promise,
          IF requesters[f].timout = 0
          THEN Resolve(PendingPromise, TimeoutCallback(requesters[f].mock, input))
          ELSE PendingPromise)
    /\ timer' = Append(timer,
          [state |-> IF requesters[f].timout = 0 THEN "fired" ELSE "scheduled",
           delay |-> requesters[f].timout])
    /\ listeners' = IF Len(initSignal) = 0 THEN listeners
                    ELSE [listeners EXCEPT ![initSignal[1]] = Append(@, Len(calls) + 1)]
    /\ UNCHANGED <<warnings, requesters, signal, reads>>

\* the returned function (input, init): the promise executor runs synchronously
Request(f, input, initSignal) ==
    /\ f \in 1..Len(requesters)
    /\ calls' = Append(calls,
          [requester |-> f, input |-> input, signal |-> initSignal,
           abortedAtCall |-> IF Len(initSignal) = 0 THEN FALSE
                             ELSE signal[initSignal[1]].aborted])
    /\ promise' = Append(promise, PendingPromise)
    /\ timer' = Append(timer, [state |-> "scheduled", delay |-> requesters[f].timout])
    /\ listeners' = IF Len(initSignal) = 0 THEN listeners
                    ELSE [listeners EXCEPT ![initSignal[1]] = Append(@, Len(calls) + 1)]
    /\ UNCHANGED <<warnings, requesters, signal, reads>>

\* the setTimeout callback of invocation i runs
TimerFire(i) ==
    /\ i \in 1..Len(calls)
    /\ timer[i].state = "scheduled"
    /\ timer' = [timer EXCEPT ![i].state = "fired"]
    /\ promise' = [promise EXCEPT ![i] =
          Resolve(@, TimeoutCallback(requesters[calls[i].requester].mock, calls[i].input))]
    /\ UNCHANGED <<warnings, requesters, calls, listeners, signal, reads>>

\* the "abort" listener of invocation i: clearTimeout(timeoutId); reject(init.signal?.reason)
\* (mutant) a listener that forgets clearTimeout
AbortListenerTimerNoClear(t) == t
AbortListenerTimer(t) == [t EXCEPT !.state = ClearTimeout(@)]
\* (mutant) a listener that wraps the reason in an error of its own
AbortListenerPromiseWrapped(p, reason) == Reject(p, "Error:aborted")
\* (mutant) a listener that rejects whatever the promise's state
AbortListenerPromiseOverwrites(p, reason) == RejectOverwrites(p, reason)
AbortListenerPromise(p, reason) == Reject(p, reason)

\* (mutant) an abort event that reaches only the first listener added
RegisteredFirst(s, i) == Len(listeners[s]) > 0 /\ listeners[s][1] = i
\* (mutant) one listener list shared by every signal
RegisteredAnywhere(s, i) == \E z \in Signals : \E k \in 1..Len(listeners[z]) : listeners[z][k] = i
Registered(s, i) == \E k \in 1..Len(listeners[s]) : listeners[s][k] = i

\* the caller aborts signal s with a reason: the abort event is dispatched once,
\* synchronously, to every listener registered on s
Abort(s, reason) ==
    /\ ~signal[s].aborted
    /\ signal' = [signal EXCEPT ![s] = [aborted |-> TRUE, reason |-> reason]]
    /\ timer' = [i \in 1..Len(timer) |->
          IF Registered(s, i) THEN AbortListenerTimer(timer[i]) ELSE timer[i]]
    /\ promise' = [i \in 1..Len(promise) |->
          IF Registered(s, i) THEN AbortListenerPromise(promise[i], signal'[s].reason)
          ELSE promise[i]]
    /\ UNCHANGED <<warnings, requesters, calls, listeners, reads>>

\* the caller calls json() on the response invocation i resolved with
Json(i) ==
    /\ i \in 1..Len(calls)
    /\ promise[i].state = "fulfilled"
    /\ reads' = Append(reads, [call |-> i, kind |-> "json", value |-> json(promise[i].response[1])])
    /\ UNCHANGED <<warnings, requesters, calls, promise, timer, listeners, signal>>

\* the caller calls text() on the response invocation i resolved with
Text(i) ==
    /\ i \in 1..Len(calls)
    /\ promise[i].state = "fulfilled"
    /\ reads' = Append(reads, [call |-> i, kind |-> "text", value |-> text(promise[i].response[1])])
    /\ UNCHANGED <<warnings, requesters, calls, promise, timer, listeners, signal>>

InitArgs == {<<>>} \cup {<<s>> : s \in Signals}

Next ==
    \/ /\ Len(requesters) < MaxFactories
       /\ \E mock \in RaceMocks, t \in TimoutArgs : UnreadyFetch(mock, t)
    \/ /\ Len(calls) < MaxInvocations
       /\ \E f \in 1..Len(requesters), input \in RaceTargets, s \in InitArgs : Request(f, input, s)
    \/ \E i \in 1..Len(calls) : TimerFire(i)
    \/ \E s \in Signals, r \in Reasons : Abort(s, r)

Spec == Init /\ [][Next]_vars

\* One request function, made from any mock and timout, and its invocations:
\* the specification the claims about the timer callback's result are checked under.
InitBranch ==
    /\ warnings = 1
    /\ requesters \in {<<[mock |-> mock,
                          timout |-> IF Len(t) = 0 THEN DefaultTimout ELSE t[1]]>> :
                          mock \in Mocks, t \in TimoutArgs}
    /\ calls = <<>>
    /\ promise = <<>>
    /\ timer = <<>>
    /\ listeners = [s \in Signals |-> <<>>]
    /\ signal = [s \in Signals |-> [aborted |-> FALSE, reason |-> Undefined]]
    /\ reads = <<>>

NextBranch ==
    \/ /\ Len(calls) < MaxBranchInvocations
       /\ \E input \in Targets, s \in InitArgs : Request(1, input, s)
    \/ \E i \in 1..Len(calls) : TimerFire(i)
    \/ \E s \in Signals, r \in Reasons : Abort(s, r)

SpecBranch == InitBranch /\ [][NextBranch]_vars

\* One request function, its invocations without a signal, and the caller's
\* json() / text() calls on the responses.
NextAccess ==
    \/ /\ Len(calls) < MaxBranchInvocations
       /\ \E input \in RaceTargets : Request(1, input, <<>>)
    \/ \E i \in 1..Len(calls) : TimerFire(i)
    \/ /\ Len(reads) < MaxReads
       /\ \E i \in 1..Len(calls) : Json(i)
    \/ /\ Len(reads) < MaxReads
       /\ \E i \in 1..Len(calls) : Text(i)

SpecAccess == InitBranch /\ [][NextAccess]_vars


\* ------------------------------------------------------- derived vocabulary
MockOf(i) == requesters[calls[i].requester].mock
HasSignal(i, s) == Len(calls[i].signal) = 1 /\ calls[i].signal[1] = s
Invocations == 1..Len(calls)
Fulfilled(i) == promise[i].state = "fulfilled"
Rejected(i) == promise[i].state = "rejected"
Pending(i) == promise[i].state = "pending"
\* the signal s fires its abort event in this step
AbortFires(s) == ~signal[s].aborted /\ signal'[s].aborted
PromiseState(p) ==
    CASE p.state = "pending" -> "PENDING"
      [] p.state = "rejected" -> "REJECTED_ABORTED"
      [] p.state = "fulfilled" /\ Len(p.response) = 1 /\ p.response[1].ok -> "RESOLVED_SUCCESS"
      [] p.state = "fulfilled" /\ Len(p.response) = 1 /\ ~p.response[1].ok -> "RESOLVED_ERROR"
      [] OTHER -> "INVALID"

\* ------------------------------------------------------------------ claims

\* C1: every promise is always in exactly one of PENDING, RESOLVED_SUCCESS,
\* RESOLVED_ERROR, REJECTED_ABORTED, it leaves PENDING at most once, and once it
\* is in a terminal state no later step (timer or abort) changes it.
C1_SettledExactlyOnce ==
    /\ [](\A i \in Invocations :
            /\ PromiseState(promise[i]) \in
                 {"PENDING", "RESOLVED_SUCCESS", "RESOLVED_ERROR", "REJECTED_ABORTED"}
            /\ (Rejected(i) => Len(promise[i].response) = 0)
            /\ (Fulfilled(i) => promise[i].reason = Undefined))
    /\ [][\A i \in Invocations : ~Pending(i) => promise'[i] = promise[i]]_vars

\* one invocation resolved by its timer and aborted later, another one rejected
C1_Witness ==
    \E i, j \in Invocations :
        /\ Fulfilled(i) /\ Len(calls[i].signal) = 1 /\ ~calls[i].abortedAtCall
        /\ signal[calls[i].signal[1]].aborted
        /\ Rejected(j)

\* C2: when a signal fires abort while an invocation made with it is pending,
\* that step cancels the invocation's timer and rejects its promise without a
\* response; a cancelled timer stays cancelled (its callback never runs) and its
\* promise stays rejected with no response.
C2_AbortCancelsTimer ==
    [][/\ \A s \in Signals : AbortFires(s) =>
             \A i \in Invocations : (HasSignal(i, s) /\ Pending(i)) =>
                 /\ timer'[i].state = "cleared"
                 /\ promise'[i].state = "rejected"
                 /\ Len(promise'[i].response) = 0
       /\ \A i \in Invocations : timer[i].state = "cleared" =>
             /\ timer'[i].state = "cleared"
             /\ promise'[i].state = "rejected"
             /\ Len(promise'[i].response) = 0]_vars

\* an invocation aborted while pending: rejected, timer cancelled
C2_Witness ==
    \E i \in Invocations :
        /\ Rejected(i) /\ timer[i].state = "cleared"
        /\ Len(calls[i].signal) = 1 /\ ~calls[i].abortedAtCall

\* C3: an invocation made with a signal that was already aborted at the call is
\* rejected with the signal's reason as soon as the call returns, and is never
\* resolved with a response.
C3_AlreadyAbortedRejects ==
    \A i \in Invocations : calls[i].abortedAtCall =>
        /\ promise[i].state = "rejected"
        /\ promise[i].reason = signal[calls[i].signal[1]].reason

\* C4: when a signal fires abort after the timer of an invocation made with it
\* has fired and resolved the promise, the step changes neither the promise
\* (same url, ok, status, payload; no rejection) nor the timer.
C4_AbortAfterResolveNoOp ==
    [][\A s \in Signals : AbortFires(s) =>
          \A i \in Invocations : (HasSignal(i, s) /\ Fulfilled(i)) =>
              /\ promise'[i] = promise[i]
              /\ timer'[i] = timer[i]]_vars

\* a resolved invocation whose signal aborted after the timer fired
C4_Witness ==
    \E i \in Invocations :
        /\ Fulfilled(i) /\ timer[i].state = "fired"
        /\ Len(calls[i].signal) = 1 /\ ~calls[i].abortedAtCall
        /\ signal[calls[i].signal[1]].aborted
        /\ promise[i].response[1] = TimeoutCallback(MockOf(i), calls[i].input)

\* C5: a rejected promise belongs to an invocation whose signal fired abort
\* before its timer fired, and carries exactly the signal's reason; an invocation
\* whose timer fired is resolved, and if the error branch was taken it is resolved
\* with ok = false, whatever the status.
C5_RejectOnlyByAbort ==
    \A i \in Invocations :
        /\ Rejected(i) =>
              /\ Len(calls[i].signal) = 1
              /\ signal[calls[i].signal[1]].aborted
              /\ promise[i].reason = signal[calls[i].signal[1]].reason
              /\ promise[i].reason \in Reasons
              /\ timer[i].state = "cleared"
        /\ timer[i].state = "fired" =>
              /\ Fulfilled(i)
              /\ IsErrorBranch(MockOf(i)) => ~promise[i].response[1].ok

\* both outcomes at once: a rejection with a caller's reason, an error response
C5_Witness ==
    \E i, j \in Invocations :
        /\ Rejected(i) /\ promise[i].reason = "obj:reason"
        /\ Fulfilled(j) /\ ~promise[j].response[1].ok /\ promise[j].response[1].status = 500


\* the branch condition as the specification words it: defined, not truthy
SpecErrorBranch(mock) ==
    \/ Len(MockStatus(mock)) = 1 /\ MockStatus(mock)[1] >= 400
    \/ MockSuccess(mock) = Undefined /\ MockError(mock) # Undefined
StatusBelow400(mock) == Len(MockStatus(mock)) = 0 \/ MockStatus(mock)[1] < 400
StatusAtLeast400(mock) == Len(MockStatus(mock)) = 1 /\ MockStatus(mock)[1] >= 400
NoFields(mock) ==
    \/ Len(mock) = 0
    \/ MockSuccess(mock) = Undefined /\ MockError(mock) = Undefined /\ Len(MockStatus(mock)) = 0
Resolved(i) == timer[i].state = "fired" /\ Fulfilled(i)
ResponseOf(i) == promise[i].response[1]

\* C6: when the timer fires, the error branch (ok = false) is taken exactly when
\* status is defined and >= 400, or success is undefined and error is defined,
\* for every value of success and error, defined falsy values included.
C6_BranchByDefinedness ==
    \A i \in Invocations : Resolved(i) =>
        (~ResponseOf(i).ok <=> SpecErrorBranch(MockOf(i)))

\* C7 (as stated): for status >= 400 the response has ok = false, status =
\* spec.status and payload spec.error if present (not undefined), else the
\* Default Error Payload.
C7_ErrorStatusPayloadIfPresent ==
    \A i \in Invocations : (Resolved(i) /\ StatusAtLeast400(MockOf(i))) =>
        /\ ~ResponseOf(i).ok
        /\ ResponseOf(i).status = MockStatus(MockOf(i))[1]
        /\ ResponseOf(i).payload =
              IF MockError(MockOf(i)) # Undefined THEN MockError(MockOf(i))
              ELSE defaultErrorResponse

\* C7 (amended): for status >= 400, whether or not success is set, the response
\* has ok = false, status = spec.status and payload spec.error if that is
\* neither undefined nor null, else the Default Error Payload.
C7_ErrorStatusPayloadIfNotNullish ==
    \A i \in Invocations : (Resolved(i) /\ StatusAtLeast400(MockOf(i))) =>
        /\ ~ResponseOf(i).ok
        /\ ResponseOf(i).status = MockStatus(MockOf(i))[1]
        /\ ResponseOf(i).payload =
              IF MockError(MockOf(i)) \in {"undefined", "null"} THEN defaultErrorResponse
              ELSE MockError(MockOf(i))

\* status 400 with success set and no error: resolved through the error branch
\* with the Default Error Payload
C7_Witness ==
    \E i \in Invocations :
        /\ Resolved(i)
        /\ MockOf(i) = <<[success |-> "obj:custom", error |-> Undefined, status |-> <<400>>]>>
        /\ ~ResponseOf(i).ok
        /\ ResponseOf(i).payload = defaultErrorResponse

\* C8: with success set to any value and status absent or below 400, whether or
\* not error is set, the response has ok = true, status = spec.status or 200, and
\* payload spec.success.
C8_SuccessSetResolvesSuccess ==
    \A i \in Invocations :
        (Resolved(i) /\ MockSuccess(MockOf(i)) # Undefined /\ StatusBelow400(MockOf(i))) =>
            /\ ResponseOf(i).ok
            /\ ResponseOf(i).status =
                  IF Len(MockStatus(MockOf(i))) = 0 THEN 200 ELSE MockStatus(MockOf(i))[1]
            /\ ResponseOf(i).payload = MockSuccess(MockOf(i))

\* C9: with only error set (no success, no status), whatever its value, the
\* response has ok = false, status = 400 and payload spec.error.
C9_OnlyErrorResolvesError ==
    \A i \in Invocations :
        (/\ Resolved(i)
         /\ Len(MockOf(i)) = 1
         /\ MockSuccess(MockOf(i)) = Undefined
         /\ Len(MockStatus(MockOf(i))) = 0
         /\ MockError(MockOf(i)) # Undefined) =>
            /\ ~ResponseOf(i).ok
            /\ ResponseOf(i).status = 400
            /\ ResponseOf(i).payload = MockError(MockOf(i))

\* C10: with the mock omitted, or with none of success, error and status, an
\* invocation whose timer fired is resolved with ok = true, status = 200 and the
\* Default Success Payload, and such an invocation is rejected only after its
\* signal aborted.
C10_NoFieldsResolvesDefaults ==
    \A i \in Invocations : NoFields(MockOf(i)) =>
        /\ timer[i].state = "fired" =>
              /\ Fulfilled(i)
              /\ ResponseOf(i).ok
              /\ ResponseOf(i).status = 200
              /\ ResponseOf(i).payload = defaultSuccessResponse
        /\ Rejected(i) => (Len(calls[i].signal) = 1 /\ signal[calls[i].signal[1]].aborted)

\* a resolved invocation of a request function made without any mock field
C10_Witness ==
    \E i \in Invocations : Resolved(i) /\ NoFields(MockOf(i)) /\ ResponseOf(i).ok

\* ---------------------------------------------------------------- liveness
\* One request function and its invocations, with the event loop's guarantee
\* that a scheduled timer that is not cleared eventually runs its callback.
InitLive ==
    /\ warnings = 1
    /\ requesters \in {<<[mock |-> mock,
                          timout |-> IF Len(t) = 0 THEN DefaultTimout ELSE t[1]]>> :
                          mock \in RaceMocks, t \in TimoutArgs}
    /\ calls = <<>>
    /\ promise = <<>>
    /\ timer = <<>>
    /\ listeners = [s \in Signals |-> <<>>]
    /\ signal = [s \in Signals |-> [aborted |-> FALSE, reason |-> Undefined]]
    /\ reads = <<>>

NextLive ==
    \/ /\ Len(calls) < MaxInvocations
       /\ \E input \in RaceTargets, s \in InitArgs : Request(1, input, s)
    \/ \E i \in 1..Len(calls) : TimerFire(i)
    \/ \E s \in Signals, r \in Reasons : Abort(s, r)

SpecLive ==
    /\ InitLive
    /\ [][NextLive]_vars
    /\ WF_vars(\E i \in 1..Len(calls) : TimerFire(i))

\* C11: every invocation eventually settles; it is eventually resolved with a
\* response unless its signal fires abort after the call, and when a signal fires
\* abort while an invocation made with it is pending, that invocation is rejected.
C11_EventuallySettles ==
    /\ \A i \in 1..MaxInvocations :
          (i \in Invocations) ~> (i \in Invocations /\ ~Pending(i))
    /\ \A i \in 1..MaxInvocations :
          (i \in Invocations) ~>
              (i \in Invocations /\
                 \/ Fulfilled(i) /\ Len(promise[i].response) = 1
                 \/ (Len(calls[i].signal) = 1 /\ ~calls[i].abortedAtCall
                       /\ signal[calls[i].signal[1]].aborted))
    /\ [][\A s \in Signals : AbortFires(s) =>
             \A i \in Invocations : (HasSignal(i, s) /\ Pending(i)) => Rejected(i)']_vars

\* all invocations settled: one without a signal resolved, one aborted while pending
C11_Witness ==
    /\ Len(calls) = MaxInvocations
    /\ \A i \in Invocations : ~Pending(i)
    /\ \E i \in Invocations : Len(calls[i].signal) = 0 /\ Fulfilled(i)
    /\ \E i \in Invocations : Rejected(i)

\* C12: when the request function returns, whatever the delay (0 included), the
\* new promise is pending and its timer scheduled; a promise is resolved only in a
\* later step, the one in which its timer callback runs.
C12_NeverSettledInsideCall ==
    [][/\ Len(calls') = Len(calls) + 1 =>
             /\ promise'[Len(calls')].state = "pending"
             /\ timer'[Len(calls')].state = "scheduled"
       /\ \A i \in 1..Len(calls') : promise'[i].state = "fulfilled" =>
             /\ i \in Invocations
             /\ (Pending(i) => timer[i].state = "scheduled" /\ timer'[i].state = "fired")]_vars

\* the call with delay 0 has returned and its promise is pending; an earlier
\* call with delay 0 has been resolved by its timer
C12_Witness ==
    \E i, j \in Invocations :
        /\ timer[i].delay = 0 /\ Pending(i) /\ timer[i].state = "scheduled"
        /\ timer[j].delay = 0 /\ Fulfilled(j) /\ timer[j].state = "fired"

\* C13: in both branches the url of a resolved response is the string form of
\* that invocation's target (a string itself, a URL's href, "[object Request]" for
\* a Request object), whatever the mock and the delay.
C13_UrlIsTargetString ==
    \A i \in Invocations : Resolved(i) =>
        /\ ResponseOf(i).url = ToString(calls[i].input)
        /\ calls[i].input.kind \in {"string", "URL"} => ResponseOf(i).url = calls[i].input.href
        /\ calls[i].input.kind = "Request" => ResponseOf(i).url = "[object Request]"

\* an error response for a Request object target, from a mock that sets every field
C13_Witness ==
    \E i \in Invocations :
        /\ Resolved(i) /\ ~ResponseOf(i).ok
        /\ calls[i].input.kind = "Request"
        /\ MockOf(i) = <<[success |-> "obj:custom", error |-> "obj:custom", status |-> <<500>>]>>
        /\ timer[i].delay = DefaultTimout

Reads == 1..Len(reads)
\* values that JSON.stringify keeps: no Date (or toJSON), undefined, NaN, function
PlainJson(v) == v # "obj:Date"

Untouched(j) == promise'[j] = promise[j] /\ timer'[j] = timer[j]

\* C15: the timer of one invocation firing leaves the promise and timer of every
\* other invocation unchanged; a signal firing abort leaves unchanged every
\* invocation made with a different signal or with none; a new invocation leaves
\* the earlier ones unchanged.
C15_InvocationsIndependent ==
    [][/\ \A i \in Invocations :
             (timer[i].state = "scheduled" /\ timer'[i].state = "fired") =>
                 \A j \in Invocations \ {i} : Untouched(j)
       /\ \A s \in Signals : AbortFires(s) =>
             \A j \in Invocations : ~HasSignal(j, s) => Untouched(j)
       /\ Len(calls') > Len(calls) => \A j \in Invocations : Untouched(j)]_vars

\* two invocations of one request function with different signals: the first
\* aborted and rejected, the second resolved by its timer, its signal never aborted
C15_Witness ==
    \E i, j \in Invocations :
        /\ calls[i].requester = calls[j].requester
        /\ HasSignal(i, 1) /\ Rejected(i) /\ timer[i].state = "cleared"
        /\ HasSignal(j, 2) /\ ~signal[2].aborted /\ Fulfilled(j)

\* C16: the response a promise is resolved with is the one the timer callback
\* built from the mock and the target (its branch, status and payload chosen
\* together, once), and no later step - an abort, another invocation, another
\* timer - changes the ok, status, payload or url of a resolved response.
C16_ResponseFixed ==
    /\ [](\A i \in Invocations : Fulfilled(i) =>
            /\ Len(promise[i].response) = 1
            /\ ResponseOf(i) = TimeoutCallback(MockOf(i), calls[i].input)
            /\ ResponseOf(i).ok = ~IsErrorBranch(MockOf(i)))
    /\ [][\A i \in Invocations : Fulfilled(i) =>
            /\ promise'[i].state = "fulfilled"
            /\ promise'[i].response = promise[i].response]_vars

\* an error response that has outlived the abort of its own signal and the
\* resolution of another invocation
C16_Witness ==
    \E i, j \in Invocations :
        /\ i < j
        /\ Fulfilled(i) /\ ~ResponseOf(i).ok /\ ResponseOf(i).status = 500
        /\ Len(calls[i].signal) = 1 /\ signal[calls[i].signal[1]].aborted
        /\ Fulfilled(j) /\ timer[j].state = "fired"

C18_OkAgreesWithStatus ==
    \A i \in Invocations : Resolved(i) =>
        /\ ResponseOf(i).status >= 400 => ~ResponseOf(i).ok
        /\ ResponseOf(i).ok => ResponseOf(i).status < 400
        /\ Len(MockStatus(MockOf(i))) = 1 => ResponseOf(i).status = MockStatus(MockOf(i))[1]
        /\ Len(MockStatus(MockOf(i))) = 0 =>
              ResponseOf(i).status = IF ResponseOf(i).ok THEN 200 ELSE 400

\* the boundary: status 400 with a success payload and no error payload
C18_Witness ==
    \E i \in Invocations :
        /\ Resolved(i)
        /\ MockOf(i) = <<[success |-> "num:0", error |-> Undefined, status |-> <<400>>]>>
        /\ ResponseOf(i).status = 400 /\ ~ResponseOf(i).ok

\* C19: when a signal shared by several invocations fires abort, that one step
\* rejects every invocation made with it that is still pending, each with the
\* signal's reason and with its timer cancelled, and changes no invocation made
\* with it that was already resolved.
C19_SharedSignalAbortsAllPending ==
    [][\A s \in Signals : AbortFires(s) =>
          \A i \in Invocations : HasSignal(i, s) =>
              /\ Pending(i) =>
                    /\ promise'[i].state = "rejected"
                    /\ promise'[i].reason = signal'[s].reason
                    /\ timer'[i].state = "cleared"
              /\ Fulfilled(i) => Untouched(i)]_vars

\* one signal, two invocations, both pending at the abort: both rejected with
\* the caller's reason
C19_Witness ==
    \E i, j \in Invocations, s \in Signals :
        /\ i # j /\ HasSignal(i, s) /\ HasSignal(j, s)
        /\ ~calls[i].abortedAtCall /\ ~calls[j].abortedAtCall
        /\ Rejected(i) /\ Rejected(j)
        /\ promise[i].reason = promise[j].reason
        /\ promise[i].reason = "obj:reason"

====
